---- MODULE Spec2Model ----
(***************************************************************************)
(* Model of the CentralLinkOfTrustContract (src/src/lib.rs): a NEAR smart  *)
(* contract keeping one UserData record and one storage deposit per hashed *)
(* account id.  Every public method is one action; a panic (require!,      *)
(* env::panic_str) aborts the call, and the host then discards every write *)
(* and every promise of that call and returns the attached deposit.        *)
(***************************************************************************)
EXTENDS Integers, Sequences, FiniteSets, TLC

(***************************************************************************)
(* Bounds of the model.                                                    *)
(***************************************************************************)
\* longest profile text a caller submits
MaxProfileLen == 1
\* how far the attached deposit exceeds or misses the amount the call needs
MaxSurplus == 1
\* largest amount asked of extract_profit
MaxExtract == 1
\* yoctoNEAR per byte returned by env::storage_byte_cost(), constant in a run
CostPerByte == 1

(***************************************************************************)
(* Accounts.  The two user accounts call the payable user methods, the     *)
(* contract's own account is the only one extract_profit accepts.          *)
(***************************************************************************)
UserAccounts == {"alice.near", "bob.near"}
ContractAccount == "lot.near"
Accounts == UserAccounts \cup {ContractAccount}

\* HashedUserId::from_account_id: bs58(sha256(account id)), a 44 byte string
from_account_id(account_id) ==
    CASE account_id = "alice.near" -> "45vVShozdzWY9UJApn9hgkGxzf6WvLGzZa32W5TmTno9"
      [] account_id = "bob.near"   -> "3SKjgJbUNPQE2HReA6xqAm3T5cZvSd4uXKTxEn8raCcs"
      [] account_id = "lot.near"   -> "4CCrR6C3FHceZBD1bVcdbqDCmaFRrePJSDAPSvCpokGJ"

\* HashedUserId::from_bs58 keeps the caller supplied string as it is
from_bs58(s) == s

\* the user_id / other_id strings callers pass: the ids of the user accounts
PeerIds == {from_account_id(a) : a \in UserAccounts}

RECURSIVE ProfileOfLen(_)
ProfileOfLen(n) == IF n = 0 THEN "" ELSE "p" \o ProfileOfLen(n - 1)
\* the profile texts callers submit: the empty one and the longest
Profiles == {ProfileOfLen(0), ProfileOfLen(MaxProfileLen)}

(***************************************************************************)
(* Trust levels are f32 values; the model writes them in tenths, so 10 is  *)
(* 1.0, 5 is 0.5, -1 is -0.1 and 11 is 1.1.                                *)
(***************************************************************************)
LevelOne == 10
Levels == {-1, 0, 5, LevelOne, LevelOne + 1}

(***************************************************************************)
(* UserData and its Vec helpers.                                           *)
(***************************************************************************)
\* UserData::new
UserData_new(hashed_id) ==
    [hashed_user_id |-> hashed_id,
     requested_trust_cost |-> 0,
     public_profile |-> "",
     trust_network |-> << >>,
     blocked_users |-> << >>]

Min(S) == CHOOSE x \in S : \A y \in S : x <= y

\* vec.remove(idx)
VecRemove(vec, idx) == SubSeq(vec, 1, idx - 1) \o SubSeq(vec, idx + 1, Len(vec))

\* the scan for an existing key is missing: the pair is always pushed
set_pair_f32_always_push(vec, key, value) == Append(vec, <<key, value>>)

set_pair_f32(vec, key, value) ==
    LET hits == {i \in 1..Len(vec) : vec[i][1] = key}
    IN  IF hits # {} THEN [vec EXCEPT ![Min(hits)] = <<key, value>>]
        ELSE Append(vec, <<key, value>>)

\* the scan for an existing key is missing: the key is always pushed
set_key_always_push(vec, key) == Append(vec, key)

set_key(vec, key) ==
    IF \E i \in 1..Len(vec) : vec[i] = key THEN vec ELSE Append(vec, key)

\* an absent key removes the last element
remove_key_pops(vec, key) ==
    LET hits == {i \in 1..Len(vec) : vec[i] = key}
    IN  IF hits # {} THEN VecRemove(vec, Min(hits))
        ELSE SubSeq(vec, 1, Len(vec) - 1)

remove_key(vec, key) ==
    LET hits == {i \in 1..Len(vec) : vec[i] = key}
    IN  IF hits # {} THEN VecRemove(vec, Min(hits)) ELSE vec

remove_pair_f32(vec, key) ==
    LET hits == {i \in 1..Len(vec) : vec[i][1] = key}
    IN  IF hits # {} THEN VecRemove(vec, Min(hits)) ELSE vec

insert_trust_network(user_data, key, val) ==
    [user_data EXCEPT !.trust_network = set_pair_f32(@, key, val)]

remove_trust_network(user_data, key) ==
    [user_data EXCEPT !.trust_network = remove_pair_f32(@, key)]

\* Option<f32>: None is << >>, Some(v) is <<v>>
get_trust_network(user_data, key) ==
    LET hits == {i \in 1..Len(user_data.trust_network) :
                    user_data.trust_network[i][1] = key}
    IN  IF hits # {} THEN <<user_data.trust_network[Min(hits)][2]>> ELSE << >>

UserData_block_user(user_data, key) ==
    [user_data EXCEPT !.blocked_users = set_key(@, key)]

UserData_unblock_user(user_data, key) ==
    [user_data EXCEPT !.blocked_users = remove_key(@, key)]

is_blocked(user_data, key) ==
    \E i \in 1..Len(user_data.blocked_users) : user_data.blocked_users[i] = key

(***************************************************************************)
(* Contract state.                                                         *)
(***************************************************************************)
VARIABLES
    users,            \* IterableMap<HashedUserId, UserData>
    user_deposits,    \* IterableMap<HashedUserId, NearToken>
    account_balance,  \* env::account_balance(): yoctoNEAR the contract holds
    overflow_checks   \* whether the build panics on integer overflow

vars == <<users, user_deposits, account_balance, overflow_checks>>

\* IterableMap::insert and IterableMap::remove
MapInsert(m, k, v) == [x \in DOMAIN m \cup {k} |-> IF x = k THEN v ELSE m[x]]
MapRemove(m, k) == [x \in DOMAIN m \ {k} |-> m[x]]

RECURSIVE SumSeqKeys(_, _, _)
\* sum over a Vec of (key length + per entry overhead)
SumSeqKeys(keys, i, overhead) ==
    IF i > Len(keys) THEN 0
    ELSE Len(keys[i]) + overhead + SumSeqKeys(keys, i + 1, overhead)

measure_storage_usage(hashed_id, user_data) ==
    LET trust_keys == [i \in 1..Len(user_data.trust_network) |->
                          user_data.trust_network[i][1]]
    IN  Len(hashed_id) + Len(user_data.public_profile)
          + SumSeqKeys(trust_keys, 1, 4)
          + SumSeqKeys(user_data.blocked_users, 1, 16)
          + 256

\* the record with_user_data hands to its closure: the one taken out of the
\* map, or a new one
take_user_data(us, hashed_id) ==
    IF hashed_id \in DOMAIN us THEN us[hashed_id] ELSE UserData_new(hashed_id)

\* with_user_data: take the record out (or make a new one), edit, re-insert;
\* `edited` is what the closure made of take_user_data(us, hashed_id)
with_user_data(us, hashed_id, edited) ==
    MapInsert(MapRemove(us, hashed_id), hashed_id, edited)

\* get_total_users_deposit: the fold over user_deposits.values()
RECURSIVE SumDeposits(_, _)
SumDeposits(deps, keys) ==
    IF keys = {} THEN 0
    ELSE LET k == CHOOSE x \in keys : TRUE
         IN  deps[k] + SumDeposits(deps, keys \ {k})

get_total_users_deposit == SumDeposits(user_deposits, DOMAIN user_deposits)

RECURSIVE SumPromises(_, _)
SumPromises(promises, i) ==
    IF i > Len(promises) THEN 0
    ELSE promises[i].amount + SumPromises(promises, i + 1)

NoError == ""
ErrInsufficientDeposit == "Insufficient deposit. Attach at least {} yoctoNEAR."
ErrInvalidTrustLevel == "Invalid trust level"
ErrBlocked == "You are blocked"
ErrNoRecord == "No record found for this user"
ErrNotAllowed == "ERR_NOT_ALLOWED"
ErrNotEnoughBalance == "ERR_NOT_ENOUGH_BALANCE"
ErrAmountTooLow == "ERR_AMOUNT_TOO_LOW"
ErrNotPayable == "Method extract_profit doesn't accept deposit"
ErrSubtractOverflow == "attempt to subtract with overflow"

(***************************************************************************)
(* The outcome of a call: the error message ("" when the call returns),    *)
(* the deficit the message carries, the promises the call leaves and the   *)
(* two maps as the call leaves them.  A panic discards the writes and the  *)
(* promises of the call.                                                   *)
(***************************************************************************)
Panic(message, deficit) ==
    [error |-> message, deficit |-> deficit, promises |-> << >>,
     users |-> users, user_deposits |-> user_deposits]

Return(new_users, new_deposits, promises) ==
    [error |-> NoError, deficit |-> 0, promises |-> promises,
     users |-> new_users, user_deposits |-> new_deposits]

(***************************************************************************)
(* Variants of verify_deposit with one slip each, used to test that the    *)
(* properties below depend on it.                                          *)
(***************************************************************************)
\* the require! on the deficit is missing
verify_deposit_no_require(us, hashed_id, attached, predecessor) ==
    LET required_deposit == measure_storage_usage(hashed_id, us[hashed_id]) * CostPerByte
        current_deposit == IF hashed_id \in DOMAIN user_deposits
                           THEN user_deposits[hashed_id] ELSE 0
        updated_deposit == current_deposit + attached
    IN  IF updated_deposit > required_deposit
        THEN Return(us,
                    MapInsert(user_deposits, hashed_id, required_deposit),
                    << [receiver_id |-> predecessor,
                        amount |-> updated_deposit - required_deposit] >>)
        ELSE Return(us,
                    MapInsert(user_deposits, hashed_id, updated_deposit),
                    << >>)

\* the deficit is reported as an error, but the edit made before it stays
verify_deposit_keeps_edit(us, hashed_id, attached, predecessor) ==
    LET required_deposit == measure_storage_usage(hashed_id, us[hashed_id]) * CostPerByte
        current_deposit == IF hashed_id \in DOMAIN user_deposits
                           THEN user_deposits[hashed_id] ELSE 0
        updated_deposit == current_deposit + attached
    IN  IF updated_deposit < required_deposit
        THEN [Panic(ErrInsufficientDeposit, required_deposit - updated_deposit)
                 EXCEPT !.users = us]
        ELSE IF updated_deposit > required_deposit
        THEN Return(us,
                    MapInsert(user_deposits, hashed_id, required_deposit),
                    << [receiver_id |-> predecessor,
                        amount |-> updated_deposit - required_deposit] >>)
        ELSE Return(us,
                    MapInsert(user_deposits, hashed_id, updated_deposit),
                    << >>)

\* the excess is refunded, but the ledger keeps the whole updated deposit
verify_deposit_keeps_excess(us, hashed_id, attached, predecessor) ==
    LET required_deposit == measure_storage_usage(hashed_id, us[hashed_id]) * CostPerByte
        current_deposit == IF hashed_id \in DOMAIN user_deposits
                           THEN user_deposits[hashed_id] ELSE 0
        updated_deposit == current_deposit + attached
    IN  IF updated_deposit < required_deposit
        THEN Panic(ErrInsufficientDeposit, required_deposit - updated_deposit)
        ELSE IF updated_deposit > required_deposit
        THEN Return(us,
                    MapInsert(user_deposits, hashed_id, updated_deposit),
                    << [receiver_id |-> predecessor,
                        amount |-> updated_deposit - required_deposit] >>)
        ELSE Return(us,
                    MapInsert(user_deposits, hashed_id, updated_deposit),
                    << >>)

(***************************************************************************)
(* verify_deposit on the edited users map `us`.                            *)
(***************************************************************************)
verify_deposit(us, hashed_id, attached, predecessor) ==
    LET new_size == measure_storage_usage(hashed_id, us[hashed_id])
        required_deposit == new_size * CostPerByte
        current_deposit == IF hashed_id \in DOMAIN user_deposits
                           THEN user_deposits[hashed_id] ELSE 0
        updated_deposit == current_deposit + attached
    IN  IF updated_deposit < required_deposit
        THEN Panic(ErrInsufficientDeposit, required_deposit - updated_deposit)
        ELSE IF updated_deposit > required_deposit
        THEN Return(us,
                    MapInsert(user_deposits, hashed_id, required_deposit),
                    << [receiver_id |-> predecessor,
                        amount |-> updated_deposit - required_deposit] >>)
        ELSE Return(us,
                    MapInsert(user_deposits, hashed_id, updated_deposit),
                    << >>)

(***************************************************************************)
(* Public methods: each is the outcome of one call in the current state.   *)
(***************************************************************************)
modify_public_profile_edit(caller_id, profile) ==
    with_user_data(users, caller_id,
                   [take_user_data(users, caller_id) EXCEPT !.public_profile = profile])

modify_public_profile(predecessor, profile, attached) ==
    LET caller_id == from_account_id(predecessor)
    IN  verify_deposit(modify_public_profile_edit(caller_id, profile),
                       caller_id, attached, predecessor)

\* level 0 is stored like any other level
trust_edit_stores_zero(caller_id, h_trusted_id, level) ==
    with_user_data(users, caller_id,
                   insert_trust_network(take_user_data(users, caller_id),
                                        h_trusted_id, level))

trust_edit(caller_id, h_trusted_id, level) ==
    LET user_data == take_user_data(users, caller_id)
    IN  with_user_data(users, caller_id,
                       IF level = 0 THEN remove_trust_network(user_data, h_trusted_id)
                       ELSE insert_trust_network(user_data, h_trusted_id, level))

\* the block check comes before the range check
trust_block_check_first(predecessor, user_id, level, attached) ==
    LET caller_id == from_account_id(predecessor)
        h_trusted_id == from_bs58(user_id)
    IN  IF h_trusted_id \in DOMAIN users
           /\ is_blocked(users[h_trusted_id], caller_id)
        THEN Panic(ErrBlocked, 0)
        ELSE IF ~(level >= 0 /\ level <= LevelOne)
        THEN Panic(ErrInvalidTrustLevel, 0)
        ELSE verify_deposit(trust_edit(caller_id, h_trusted_id, level),
                            caller_id, attached, predecessor)

\* the block check looks at the caller's own block list
trust_checks_own_blocks(predecessor, user_id, level, attached) ==
    LET caller_id == from_account_id(predecessor)
        h_trusted_id == from_bs58(user_id)
    IN  IF ~(level >= 0 /\ level <= LevelOne)
        THEN Panic(ErrInvalidTrustLevel, 0)
        ELSE IF caller_id \in DOMAIN users
                /\ is_blocked(users[caller_id], h_trusted_id)
        THEN Panic(ErrBlocked, 0)
        ELSE verify_deposit(trust_edit(caller_id, h_trusted_id, level),
                            caller_id, attached, predecessor)

trust(predecessor, user_id, level, attached) ==
    LET caller_id == from_account_id(predecessor)
        h_trusted_id == from_bs58(user_id)
    IN  IF ~(level >= 0 /\ level <= LevelOne)
        THEN Panic(ErrInvalidTrustLevel, 0)
        ELSE IF h_trusted_id \in DOMAIN users
                /\ is_blocked(users[h_trusted_id], caller_id)
        THEN Panic(ErrBlocked, 0)
        ELSE verify_deposit(trust_edit(caller_id, h_trusted_id, level),
                            caller_id, attached, predecessor)

\* the entry is set to 1.0 where it should be removed
untrust_edit_inserts(caller_id, h_trusted_id) ==
    with_user_data(users, caller_id,
                   insert_trust_network(take_user_data(users, caller_id),
                                        h_trusted_id, LevelOne))

untrust_edit(caller_id, h_trusted_id) ==
    with_user_data(users, caller_id,
                   remove_trust_network(take_user_data(users, caller_id), h_trusted_id))

untrust(predecessor, user_id, attached) ==
    LET caller_id == from_account_id(predecessor)
        h_trusted_id == from_bs58(user_id)
    IN  verify_deposit(untrust_edit(caller_id, h_trusted_id),
                       caller_id, attached, predecessor)

\* the other user's trust entry is left alone
block_user_edit_one_sided(caller_id, h_other_id) ==
    with_user_data(users, caller_id,
                   UserData_block_user(take_user_data(users, caller_id), h_other_id))

\* the trust entry toward the caller is removed from every other record
block_user_edit_sweeps(caller_id, h_other_id) ==
    LET blocked == with_user_data(users, caller_id,
                       UserData_block_user(take_user_data(users, caller_id),
                                           h_other_id))
    IN  [id \in DOMAIN blocked |->
            IF id = caller_id THEN blocked[id]
            ELSE remove_trust_network(blocked[id], caller_id)]

block_user_edit(caller_id, h_other_id) ==
    LET blocked == with_user_data(users, caller_id,
                       UserData_block_user(take_user_data(users, caller_id),
                                           h_other_id))
    IN  IF h_other_id \in DOMAIN blocked
        THEN with_user_data(blocked, h_other_id,
                 remove_trust_network(take_user_data(blocked, h_other_id), caller_id))
        ELSE blocked

block_user(predecessor, other_id, attached) ==
    LET caller_id == from_account_id(predecessor)
        h_other_id == from_bs58(other_id)
    IN  verify_deposit(block_user_edit(caller_id, h_other_id),
                       caller_id, attached, predecessor)

unblock_user_edit(caller_id, h_other_id) ==
    with_user_data(users, caller_id,
                   UserData_unblock_user(take_user_data(users, caller_id), h_other_id))

unblock_user(predecessor, other_id, attached) ==
    LET caller_id == from_account_id(predecessor)
        h_other_id == from_bs58(other_id)
    IN  verify_deposit(unblock_user_edit(caller_id, h_other_id),
                       caller_id, attached, predecessor)

\* the ledger entry is not removed
delete_user_keeps_entry(predecessor, attached) ==
    LET caller_id == from_account_id(predecessor)
    IN  IF caller_id \notin DOMAIN users
        THEN Panic(ErrNoRecord, 0)
        ELSE LET user_deposit == IF caller_id \in DOMAIN user_deposits
                                 THEN user_deposits[caller_id] ELSE 0
             IN  Return(MapRemove(users, caller_id),
                        user_deposits,
                        << [receiver_id |-> predecessor, amount |-> user_deposit] >>)

delete_user(predecessor, attached) ==
    LET caller_id == from_account_id(predecessor)
    IN  IF caller_id \notin DOMAIN users
        THEN Panic(ErrNoRecord, 0)
        ELSE LET user_deposit == IF caller_id \in DOMAIN user_deposits
                                 THEN user_deposits[caller_id] ELSE 0
             IN  Return(MapRemove(users, caller_id),
                        MapRemove(user_deposits, caller_id),
                        << [receiver_id |-> predecessor, amount |-> user_deposit] >>)

\* 2 * 10 ^ 24 in Rust is (2 * 10) XOR 24 = 20 XOR 24 = 12
ReservedOverhead == 12

\* The difference of u128 values the method computes.  Below zero the build
\* decides: with overflow checks the subtraction panics, without them the
\* result wraps to 2^128 + difference, which is above every amount passed here.
ProfitCovers(difference, amount) ==
    IF difference < 0 THEN TRUE ELSE difference >= amount

\* extract_profit without the comparison of the predecessor
extract_profit_open(predecessor, to, amount, attached) ==
    LET difference == account_balance - get_total_users_deposit - ReservedOverhead
    IN  IF attached > 0 THEN Panic(ErrNotPayable, 0)
        ELSE IF difference < 0 /\ overflow_checks THEN Panic(ErrSubtractOverflow, 0)
        ELSE IF ~ProfitCovers(difference, amount) THEN Panic(ErrNotEnoughBalance, 0)
        ELSE IF ~(amount > 0) THEN Panic(ErrAmountTooLow, 0)
        ELSE Return(users, user_deposits,
                    << [receiver_id |-> to, amount |-> amount] >>)

extract_profit(predecessor, to, amount, attached) ==
    LET difference == account_balance - get_total_users_deposit - ReservedOverhead
    IN  IF attached > 0 THEN Panic(ErrNotPayable, 0)
        ELSE IF predecessor # ContractAccount THEN Panic(ErrNotAllowed, 0)
        ELSE IF difference < 0 /\ overflow_checks THEN Panic(ErrSubtractOverflow, 0)
        ELSE IF ~ProfitCovers(difference, amount) THEN Panic(ErrNotEnoughBalance, 0)
        ELSE IF ~(amount > 0) THEN Panic(ErrAmountTooLow, 0)
        ELSE Return(users, user_deposits,
                    << [receiver_id |-> to, amount |-> amount] >>)

(***************************************************************************)
(* A call as a step of the contract: a call that returns keeps its writes, *)
(* receives the attached deposit and pays its promises; after a panic the  *)
(* state is as before and the attached deposit is back with the caller.    *)
(* The host fails a call whose transfers the account cannot pay.           *)
(***************************************************************************)
Call(outcome, attached) ==
    LET paid == outcome.error = NoError
                /\ SumPromises(outcome.promises, 1) <= account_balance + attached
    IN  /\ users' = IF paid THEN outcome.users ELSE users
        /\ user_deposits' = IF paid THEN outcome.user_deposits ELSE user_deposits
        /\ account_balance' =
              IF paid
              THEN account_balance + attached - SumPromises(outcome.promises, 1)
              ELSE account_balance
    /\ UNCHANGED overflow_checks

(***************************************************************************)
(* The deposits callers attach: nothing, or around what the edited record  *)
(* of the caller still needs.                                              *)
(***************************************************************************)
Offers(us, caller_id) ==
    LET required == measure_storage_usage(caller_id, us[caller_id]) * CostPerByte
        held == IF caller_id \in DOMAIN user_deposits
                THEN user_deposits[caller_id] ELSE 0
    IN  {0} \cup {x \in {required - held + k : k \in {-MaxSurplus, 0, MaxSurplus}} :
                   x >= 0}

\* the contract is deployed with an empty state on an account holding this
InitialBalance == ReservedOverhead + MaxExtract

\* delete_user keeps what is attached to it: callers attach to it only while
\* the contract holds its reserve and less than InitialBalance above the deposits
KeptOffers ==
    {0} \cup {x \in 1..MaxExtract :
                 /\ account_balance - get_total_users_deposit >= ReservedOverhead
                 /\ account_balance + x - get_total_users_deposit <= InitialBalance}

\* a contract account that holds nothing when the state is created
LowBalance == 0

Init ==
    /\ users = << >>
    /\ user_deposits = << >>
    /\ account_balance = InitialBalance
    /\ overflow_checks = TRUE

\* the same contract on an account below the reserve, in either build
InitLow ==
    /\ users = << >>
    /\ user_deposits = << >>
    /\ account_balance = LowBalance
    /\ overflow_checks \in BOOLEAN

ModifyPublicProfile ==
    \E a \in UserAccounts, profile \in Profiles :
      \E attached \in Offers(modify_public_profile_edit(from_account_id(a), profile),
                             from_account_id(a)) :
         Call(modify_public_profile(a, profile, attached), attached)

Trust ==
    \E a \in UserAccounts, user_id \in PeerIds, level \in Levels :
      \E attached \in Offers(trust_edit(from_account_id(a), user_id, level),
                             from_account_id(a)) :
         Call(trust(a, user_id, level, attached), attached)

Untrust ==
    \E a \in UserAccounts, user_id \in PeerIds :
      \E attached \in Offers(untrust_edit(from_account_id(a), user_id),
                             from_account_id(a)) :
         Call(untrust(a, user_id, attached), attached)

BlockUser ==
    \E a \in UserAccounts, other_id \in PeerIds :
      \E attached \in Offers(block_user_edit(from_account_id(a), other_id),
                             from_account_id(a)) :
         Call(block_user(a, other_id, attached), attached)

UnblockUser ==
    \E a \in UserAccounts, other_id \in PeerIds :
      \E attached \in Offers(unblock_user_edit(from_account_id(a), other_id),
                             from_account_id(a)) :
         Call(unblock_user(a, other_id, attached), attached)

DeleteUser ==
    \E a \in UserAccounts, attached \in KeptOffers :
         Call(delete_user(a, attached), attached)

\* the amounts asked for, up to above MaxExtract; nobody asks once the
\* account holds less than the deposits
Amounts == 0..MaxExtract + 1

ExtractProfit ==
    /\ account_balance >= get_total_users_deposit
    /\ \E a \in Accounts, to \in UserAccounts, attached \in 0..1,
          amount \in Amounts :
            Call(extract_profit(a, to, amount, attached), attached)

Next ==
    \/ ModifyPublicProfile
    \/ Trust
    \/ Untrust
    \/ BlockUser
    \/ UnblockUser
    \/ DeleteUser
    \/ ExtractProfit

Spec == Init /\ [][Next]_vars

SpecLow == InitLow /\ [][Next]_vars

(***************************************************************************)
(* Three accounts with records: the contract's own account calls the       *)
(* payable methods like any other.  Each call names another account, the   *)
(* level is 1.0 and the deposit attached is what the record still needs.   *)
(***************************************************************************)
AllPeerIds == {from_account_id(a) : a \in Accounts}

Needed(us, caller_id) ==
    LET required == measure_storage_usage(caller_id, us[caller_id]) * CostPerByte
        held == IF caller_id \in DOMAIN user_deposits
                THEN user_deposits[caller_id] ELSE 0
    IN  IF required > held THEN required - held ELSE 0

ModifyPublicProfileOfThree ==
    \E a \in Accounts, profile \in Profiles :
       \E attached \in {Needed(modify_public_profile_edit(from_account_id(a), profile),
                               from_account_id(a))} :
          Call(modify_public_profile(a, profile, attached), attached)

TrustAmongThree ==
    \E a \in Accounts :
       \E user_id \in AllPeerIds \ {from_account_id(a)} :
          \E attached \in {Needed(trust_edit(from_account_id(a), user_id, LevelOne),
                                  from_account_id(a))} :
             Call(trust(a, user_id, LevelOne, attached), attached)

BlockUserAmongThree ==
    \E a \in Accounts :
       \E other_id \in AllPeerIds \ {from_account_id(a)} :
          \E attached \in {Needed(block_user_edit(from_account_id(a), other_id),
                                  from_account_id(a))} :
             Call(block_user(a, other_id, attached), attached)

NextOfThree ==
    \/ ModifyPublicProfileOfThree
    \/ TrustAmongThree
    \/ BlockUserAmongThree

SpecOfThree == Init /\ [][NextOfThree]_vars

TypeOK ==
    /\ DOMAIN users \subseteq AllPeerIds
    /\ DOMAIN user_deposits \subseteq AllPeerIds
    /\ account_balance \in Nat
    /\ overflow_checks \in BOOLEAN

(***************************************************************************)
(* Vocabulary of the properties.                                           *)
(***************************************************************************)
\* the ledger balance of an id, 0 without an entry
Balance(deps, id) == IF id \in DOMAIN deps THEN deps[id] ELSE 0

\* what the record of id in the map us costs
Cost(us, id) == measure_storage_usage(id, us[id]) * CostPerByte

\* the calls of the five payable methods that end in verify_deposit
MutatingCalls ==
    [method : {"modify_public_profile"}, predecessor : UserAccounts,
     arg : Profiles, level : {0}]
    \cup [method : {"trust"}, predecessor : UserAccounts,
          arg : PeerIds, level : Levels]
    \cup [method : {"untrust", "block_user", "unblock_user"},
          predecessor : UserAccounts, arg : PeerIds, level : {0}]

\* the users map as the call's edit leaves it, before verify_deposit
Edited(c) ==
    LET caller_id == from_account_id(c.predecessor)
    IN  CASE c.method = "modify_public_profile" ->
                 modify_public_profile_edit(caller_id, c.arg)
          [] c.method = "trust" -> trust_edit(caller_id, c.arg, c.level)
          [] c.method = "untrust" -> untrust_edit(caller_id, c.arg)
          [] c.method = "block_user" -> block_user_edit(caller_id, c.arg)
          [] c.method = "unblock_user" -> unblock_user_edit(caller_id, c.arg)

Outcome(c, attached) ==
    CASE c.method = "modify_public_profile" ->
             modify_public_profile(c.predecessor, c.arg, attached)
      [] c.method = "trust" -> trust(c.predecessor, c.arg, c.level, attached)
      [] c.method = "untrust" -> untrust(c.predecessor, c.arg, attached)
      [] c.method = "block_user" -> block_user(c.predecessor, c.arg, attached)
      [] c.method = "unblock_user" -> unblock_user(c.predecessor, c.arg, attached)

\* the deposits tried with a call
Attached(c) == Offers(Edited(c), from_account_id(c.predecessor))

\* trust turns the call away before it edits anything
TurnedAway(c) ==
    /\ c.method = "trust"
    /\ \/ c.level < 0
       \/ c.level > LevelOne
       \/ /\ c.arg \in DOMAIN users
          /\ is_blocked(users[c.arg], from_account_id(c.predecessor))

Blocks(us, a_id, b_id) == a_id \in DOMAIN us /\ is_blocked(us[a_id], b_id)

Trusts(us, b_id, a_id) ==
    b_id \in DOMAIN us /\ get_trust_network(us[b_id], a_id) # << >>

(***************************************************************************)
(* C1  Funding invariant: between calls, every record that exists has a    *)
(* ledger balance of at least measure_storage_usage(record) * costPerByte. *)
(***************************************************************************)
C1_Funded ==
    \A id \in DOMAIN users : Balance(user_deposits, id) >= Cost(users, id)

\* a record that another user's block_user has shrunk: it holds more than it
\* costs, beside a record that grew beyond the empty one
C1_Witness ==
    \E id \in DOMAIN users, other \in DOMAIN users :
        /\ Balance(user_deposits, id) > Cost(users, id)
        /\ Len(users[other].blocked_users) > 0

(***************************************************************************)
(* C2  All-or-nothing on insufficient funds: a call of a payable mutating  *)
(* method that reaches verify_deposit with currentBalance + attached below *)
(* the cost of the caller's edited record fails with the insufficient      *)
(* deposit message carrying exactly required - (currentBalance + attached),*)
(* leaves no promise, and leaves users and user_deposits as they were      *)
(* (for block_user also the other user's trust entry toward the caller).   *)
(***************************************************************************)
C2_AllOrNothing ==
    \A c \in MutatingCalls : \A attached \in Attached(c) :
        LET caller_id == from_account_id(c.predecessor)
            required == Cost(Edited(c), caller_id)
            available == Balance(user_deposits, caller_id) + attached
            r == Outcome(c, attached)
        IN  (~TurnedAway(c) /\ available < required) =>
                /\ r.error = ErrInsufficientDeposit
                /\ r.deficit = required - available
                /\ r.promises = << >>
                /\ r.users = users
                /\ r.user_deposits = user_deposits

\* bob trusts alice and alice's underfunded block_user(bob) fails
C2_Witness ==
    \E a \in UserAccounts, b_id \in PeerIds :
        /\ Trusts(users, b_id, from_account_id(a))
        /\ b_id # from_account_id(a)
        /\ \E attached \in Offers(block_user_edit(from_account_id(a), b_id),
                                  from_account_id(a)) :
              /\ attached > 0
              /\ block_user(a, b_id, attached).error = ErrInsufficientDeposit
              /\ Trusts(block_user(a, b_id, attached).users, b_id, from_account_id(a))

(***************************************************************************)
(* C3  Reconciliation result: after a successful call of a payable         *)
(* mutating method, with available = currentBalance + attached and         *)
(* required the cost of the caller's record as the call leaves it: if      *)
(* available > required the caller's balance is required and exactly one   *)
(* transfer of available - required to the caller is scheduled; if         *)
(* available = required the balance is available and nothing is scheduled. *)
(***************************************************************************)
C3_Reconciliation ==
    \A c \in MutatingCalls : \A attached \in Attached(c) :
        LET caller_id == from_account_id(c.predecessor)
            available == Balance(user_deposits, caller_id) + attached
            r == Outcome(c, attached)
        IN  r.error = NoError =>
               LET required == Cost(r.users, caller_id)
               IN  /\ available >= required
                   /\ caller_id \in DOMAIN r.user_deposits
                   /\ available > required =>
                         /\ r.user_deposits[caller_id] = required
                         /\ r.promises = << [receiver_id |-> c.predecessor,
                                             amount |-> available - required] >>
                   /\ available = required =>
                         /\ r.user_deposits[caller_id] = available
                         /\ r.promises = << >>

\* a user holding a deposit grows the record and attaches more than is missing,
\* or exactly what is missing
C3_Witness ==
    /\ \E c \in MutatingCalls : \E attached \in Attached(c) :
          /\ Balance(user_deposits, from_account_id(c.predecessor)) > 0
          /\ Outcome(c, attached).error = NoError
          /\ Outcome(c, attached).promises # << >>
          /\ attached > Outcome(c, attached).promises[1].amount
    /\ \E c \in MutatingCalls : \E attached \in Attached(c) :
          /\ Balance(user_deposits, from_account_id(c.predecessor)) > 0
          /\ attached > 0
          /\ Outcome(c, attached).error = NoError
          /\ Outcome(c, attached).promises = << >>

(***************************************************************************)
(* C4  Blocking implies no trust edge: between calls, if A's record blocks *)
(* B then B's record (if any) holds no trust entry toward A; and when B    *)
(* trusts A and A's block_user(B) succeeds, the entry is gone after the    *)
(* call.                                                                   *)
(***************************************************************************)
C4_BlockedHasNoTrust ==
    /\ \A a_id \in PeerIds, b_id \in PeerIds :
          Blocks(users, a_id, b_id) => ~Trusts(users, b_id, a_id)
    /\ \A a \in UserAccounts, b_id \in PeerIds :
          \A attached \in Offers(block_user_edit(from_account_id(a), b_id),
                                 from_account_id(a)) :
             LET r == block_user(a, b_id, attached)
             IN  r.error = NoError =>
                    /\ Blocks(r.users, from_account_id(a), b_id)
                    /\ ~Trusts(r.users, b_id, from_account_id(a))

\* bob trusts alice and alice's block_user(bob) succeeds
C4_Witness ==
    \E a \in UserAccounts, b_id \in PeerIds :
        /\ b_id # from_account_id(a)
        /\ Trusts(users, b_id, from_account_id(a))
        /\ \E attached \in Offers(block_user_edit(from_account_id(a), b_id),
                                  from_account_id(a)) :
              block_user(a, b_id, attached).error = NoError

(***************************************************************************)
(* C5  Blocked caller cannot trust: while A's record blocks B, B's call    *)
(* trust(A, L) with a level in range fails with "You are blocked" and      *)
(* changes nothing: no record, no ledger entry, no promise.                *)
(***************************************************************************)
C5_BlockedCannotTrust ==
    \A b \in UserAccounts, a_id \in PeerIds :
        Blocks(users, a_id, from_account_id(b)) =>
            \A level \in {l \in Levels : l >= 0 /\ l <= LevelOne} :
               \A attached \in Offers(trust_edit(from_account_id(b), a_id, level),
                                      from_account_id(b)) :
                  LET r == trust(b, a_id, level, attached)
                  IN  /\ r.error = ErrBlocked
                      /\ r.users = users
                      /\ r.user_deposits = user_deposits
                      /\ r.promises = << >>

\* alice blocks bob, bob has no record yet, and bob attaches enough for one
C5_Witness ==
    \E b \in UserAccounts, a_id \in PeerIds :
        /\ a_id # from_account_id(b)
        /\ Blocks(users, a_id, from_account_id(b))
        /\ from_account_id(b) \notin DOMAIN users
        /\ \E attached \in Offers(trust_edit(from_account_id(b), a_id, LevelOne),
                                  from_account_id(b)) :
              /\ attached >= Cost(trust_edit(from_account_id(b), a_id, LevelOne),
                                  from_account_id(b))
              /\ trust(b, a_id, LevelOne, attached).error = ErrBlocked

(***************************************************************************)
(* C6  Account deletion: delete_user by a caller whose record exists with  *)
(* held balance X succeeds, removes the record and the ledger entry and    *)
(* schedules one transfer of exactly X to the caller; delete_user by a     *)
(* caller with no record (so also a second delete_user right after the     *)
(* first) fails with "No record found for this user" and changes nothing.  *)
(***************************************************************************)
C6_DeleteUser ==
    \A a \in UserAccounts : \A attached \in 0..MaxExtract :
        LET caller_id == from_account_id(a)
            r == delete_user(a, attached)
        IN  IF caller_id \in DOMAIN users
            THEN /\ r.error = NoError
                 /\ caller_id \notin DOMAIN r.users
                 /\ caller_id \notin DOMAIN r.user_deposits
                 /\ r.promises = << [receiver_id |-> a,
                                     amount |-> Balance(user_deposits, caller_id)] >>
            ELSE /\ r.error = ErrNoRecord
                 /\ r.users = users
                 /\ r.user_deposits = user_deposits
                 /\ r.promises = << >>

\* alice has deleted her account (bob still holds the deposit for the entry
\* her block_user took from him) and deletes again; bob's delete refunds all
C6_Witness ==
    \E a \in UserAccounts, b \in UserAccounts :
        /\ from_account_id(a) \notin DOMAIN users
        /\ from_account_id(b) \in DOMAIN users
        /\ Balance(user_deposits, from_account_id(b)) > Cost(users, from_account_id(b))
        /\ delete_user(a, 0).error = ErrNoRecord
        /\ delete_user(b, 0).error = NoError
        /\ delete_user(b, 0).promises[1].amount = Balance(user_deposits, from_account_id(b))

(***************************************************************************)
(* C7  as claimed: between calls, every user's ledger balance equals       *)
(* exactly measure_storage_usage(record) * costPerByte.                    *)
(***************************************************************************)
C7_DepositsExact ==
    \A id \in DOMAIN users : Balance(user_deposits, id) = Cost(users, id)

(***************************************************************************)
(* C7  as amended: a successful call of a payable mutating method leaves   *)
(* the caller's balance at exactly the cost of the caller's record, and    *)
(* leaves every other user's balance as it was and at least the cost of    *)
(* that user's record (block_user shrinks the other record and not its     *)
(* balance).                                                               *)
(***************************************************************************)
C7_ExactForCaller ==
    \A c \in MutatingCalls : \A attached \in Attached(c) :
        LET caller_id == from_account_id(c.predecessor)
            r == Outcome(c, attached)
        IN  r.error = NoError =>
               /\ Balance(r.user_deposits, caller_id) = Cost(r.users, caller_id)
               /\ \A id \in DOMAIN r.users \ {caller_id} :
                     /\ Balance(r.user_deposits, id) = Balance(user_deposits, id)
                     /\ Balance(r.user_deposits, id) >= Cost(r.users, id)

\* bob trusts alice, and alice's successful block_user(bob) leaves bob holding
\* more than his record costs
C7_Witness ==
    \E a \in UserAccounts, b_id \in PeerIds :
        /\ b_id # from_account_id(a)
        /\ Trusts(users, b_id, from_account_id(a))
        /\ \E attached \in Offers(block_user_edit(from_account_id(a), b_id),
                                  from_account_id(a)) :
              LET r == block_user(a, b_id, attached)
              IN  /\ r.error = NoError
                  /\ Balance(r.user_deposits, b_id) > Cost(r.users, b_id)

(***************************************************************************)
(* C8  Set-then-get of trust: after a successful trust(p, L) with L in     *)
(* range, the caller's record returns L for p when L > 0 and None when     *)
(* L = 0, and every other peer's entry of the caller is as before.         *)
(***************************************************************************)
C8_SetThenGet ==
    \A a \in UserAccounts, p \in PeerIds :
        \A level \in {l \in Levels : l >= 0 /\ l <= LevelOne} :
           \A attached \in Offers(trust_edit(from_account_id(a), p, level),
                                  from_account_id(a)) :
              LET caller_id == from_account_id(a)
                  r == trust(a, p, level, attached)
              IN  r.error = NoError =>
                     /\ caller_id \in DOMAIN r.users
                     /\ get_trust_network(r.users[caller_id], p) =
                           (IF level > 0 THEN <<level>> ELSE << >>)
                     /\ \A q \in PeerIds \ {p} :
                           get_trust_network(r.users[caller_id], q) =
                              get_trust_network(take_user_data(users, caller_id), q)

\* the caller holds entries for two peers and overwrites the older one with
\* another level
C8_Witness ==
    \E a \in UserAccounts, p \in PeerIds :
        /\ from_account_id(a) \in DOMAIN users
        /\ Len(users[from_account_id(a)].trust_network) = 2
        /\ users[from_account_id(a)].trust_network[1] = <<p, 5>>
        /\ trust(a, p, LevelOne, 0).error = NoError
        /\ get_trust_network(trust(a, p, LevelOne, 0).users[from_account_id(a)], p)
              = <<LevelOne>>

(***************************************************************************)
(* C9  Out-of-range trust level: trust(p, L) with L < 0 or L > 1 fails     *)
(* with "Invalid trust level" for every caller, peer and attached amount,  *)
(* whether or not p blocks the caller, and changes nothing: no record is   *)
(* created, no ledger entry written, no promise made.                      *)
(***************************************************************************)
C9_InvalidLevel ==
    \A a \in UserAccounts, p \in PeerIds :
        \A level \in {l \in Levels : l < 0 \/ l > LevelOne} :
           \A attached \in Offers(trust_edit(from_account_id(a), p, level),
                                  from_account_id(a)) :
              LET r == trust(a, p, level, attached)
              IN  /\ r.error = ErrInvalidTrustLevel
                  /\ r.users = users
                  /\ r.user_deposits = user_deposits
                  /\ r.promises = << >>

\* p blocks the caller, who has no record and attaches enough for one
C9_Witness ==
    \E a \in UserAccounts, p \in PeerIds :
        /\ Blocks(users, p, from_account_id(a))
        /\ from_account_id(a) \notin DOMAIN users
        /\ \E attached \in Offers(trust_edit(from_account_id(a), p, LevelOne + 1),
                                  from_account_id(a)) :
              /\ attached >= Cost(trust_edit(from_account_id(a), p, LevelOne + 1),
                                  from_account_id(a))
              /\ trust(a, p, LevelOne + 1, attached).error = ErrInvalidTrustLevel

(***************************************************************************)
(* C10 as claimed: unblock_user(p) by any caller, with or without a        *)
(* record, with any attached amount, when p is not in the caller's block   *)
(* set, does not fail and leaves the stored state unchanged.               *)
(***************************************************************************)
C10_UnblockNoOp ==
    \A a \in UserAccounts, p \in PeerIds :
        \A attached \in Offers(unblock_user_edit(from_account_id(a), p),
                               from_account_id(a)) :
           LET r == unblock_user(a, p, attached)
           IN  ~Blocks(users, from_account_id(a), p) =>
                  /\ r.error = NoError
                  /\ r.users = users
                  /\ r.user_deposits = user_deposits

(***************************************************************************)
(* C10 as amended: UserData::unblock_user(p) on a record that does not     *)
(* block p returns the record unchanged.  The public unblock_user(p) by a  *)
(* caller whose record exists and does not block p never fails and leaves  *)
(* every record unchanged, but sets the caller's balance to the cost of    *)
(* the record and refunds all above it; by a caller without a record it    *)
(* fails for want of deposit unless the attached amount covers a new empty *)
(* record, which it then creates together with its ledger entry.           *)
(***************************************************************************)
C10_UnblockReconciles ==
    \A a \in UserAccounts, p \in PeerIds :
        \A attached \in Offers(unblock_user_edit(from_account_id(a), p),
                               from_account_id(a)) :
           LET caller_id == from_account_id(a)
               r == unblock_user(a, p, attached)
               available == Balance(user_deposits, caller_id) + attached
           IN  /\ (caller_id \in DOMAIN users /\ ~is_blocked(users[caller_id], p)) =>
                     /\ UserData_unblock_user(users[caller_id], p) = users[caller_id]
                     /\ r.error = NoError
                     /\ r.users = users
                     /\ r.user_deposits =
                           [user_deposits EXCEPT ![caller_id] = Cost(users, caller_id)]
                     /\ r.promises =
                           (IF available > Cost(users, caller_id)
                            THEN << [receiver_id |-> a,
                                     amount |-> available - Cost(users, caller_id)] >>
                            ELSE << >>)
               /\ caller_id \notin DOMAIN users =>
                     LET fresh == MapInsert(users, caller_id, UserData_new(caller_id))
                     IN  IF attached >= Cost(fresh, caller_id)
                         THEN /\ r.error = NoError
                              /\ r.users = fresh
                              /\ r.user_deposits =
                                    MapInsert(user_deposits, caller_id,
                                              Cost(fresh, caller_id))
                         ELSE /\ r.error = ErrInsufficientDeposit
                              /\ r.users = users
                              /\ r.user_deposits = user_deposits

\* the caller blocks one peer and not p, holds more than the record costs, and
\* the unblock_user(p) with nothing attached lowers the balance and refunds
C10_Witness ==
    \E a \in UserAccounts, p \in PeerIds :
        /\ from_account_id(a) \in DOMAIN users
        /\ Len(users[from_account_id(a)].blocked_users) = 1
        /\ ~is_blocked(users[from_account_id(a)], p)
        /\ Balance(user_deposits, from_account_id(a)) > Cost(users, from_account_id(a))
        /\ unblock_user(a, p, 0).error = NoError
        /\ unblock_user(a, p, 0).promises # << >>
        /\ unblock_user(a, p, 0).user_deposits # user_deposits

(***************************************************************************)
(* C11: extract_profit called by any account other than the contract's own *)
(* fails for every amount (zero, positive, within or above the surplus)    *)
(* and in every state: with nothing attached the message is                *)
(* ERR_NOT_ALLOWED (a deposit attached to this non-payable method is       *)
(* turned away before the body runs); no transfer is scheduled and neither *)
(* map changes.                                                            *)
(***************************************************************************)
C11_NotAllowed ==
    \A a \in Accounts \ {ContractAccount}, to \in Accounts,
       amount \in Amounts, attached \in 0..1 :
        LET r == extract_profit(a, to, amount, attached)
        IN  /\ r.error # NoError
            /\ attached = 0 => r.error = ErrNotAllowed
            /\ r.promises = << >>
            /\ r.users = users
            /\ r.user_deposits = user_deposits

\* a user with a record asks for an amount the contract account itself
\* would be paid, and is refused
C11_Witness ==
    /\ from_account_id("alice.near") \in DOMAIN users
    /\ extract_profit(ContractAccount, "alice.near", MaxExtract, 0).error = NoError
    /\ extract_profit("alice.near", "alice.near", MaxExtract, 0).error = ErrNotAllowed
    /\ extract_profit("alice.near", "alice.near", 0, 0).error = ErrNotAllowed
    /\ extract_profit("alice.near", "alice.near", MaxExtract + 1, 0).error
           = ErrNotAllowed

\* what the account holds above the deposits and the reserve, as a number
\* that may be below zero
Surplus == account_balance - get_total_users_deposit - ReservedOverhead

(***************************************************************************)
(* C12: extract_profit(to, amount) called by the contract's own account    *)
(* schedules a transfer, of amount to to, only when 0 < amount <= Surplus; *)
(* it fails with ERR_NOT_ENOUGH_BALANCE when amount > Surplus, also when   *)
(* the account holds less than the deposits plus the reserve, and with     *)
(* ERR_AMOUNT_TOO_LOW when amount <= 0; a failing call schedules nothing.  *)
(***************************************************************************)
C12_ExtractBounded ==
    \A to \in Accounts, amount \in Amounts :
        LET r == extract_profit(ContractAccount, to, amount, 0)
        IN  /\ r.promises # << >> =>
                  /\ 0 < amount
                  /\ amount <= Surplus
                  /\ r.promises = << [receiver_id |-> to, amount |-> amount] >>
            /\ amount > Surplus => r.error = ErrNotEnoughBalance
            /\ (amount <= 0 /\ amount <= Surplus) => r.error = ErrAmountTooLow
            /\ r.error # NoError => r.promises = << >>

NoDuplicates(vec) ==
    \A i, j \in 1..Len(vec) : i # j => vec[i] # vec[j]

\* the keys of a trust network, in its order
TrustKeys(user_data) ==
    [i \in 1..Len(user_data.trust_network) |-> user_data.trust_network[i][1]]

(***************************************************************************)
(* C13: in every state no record holds a peer twice, neither as a key of   *)
(* its trust_network nor in its blocked_users; and a block_user(p) by a    *)
(* caller who already blocks p, when it succeeds, leaves the caller's      *)
(* blocked_users as it was.                                                *)
(***************************************************************************)
C13_SetSemantics ==
    /\ \A id \in DOMAIN users :
          /\ NoDuplicates(TrustKeys(users[id]))
          /\ NoDuplicates(users[id].blocked_users)
    /\ \A a \in UserAccounts, p \in PeerIds :
          Blocks(users, from_account_id(a), p) =>
             \A attached \in Offers(block_user_edit(from_account_id(a), p),
                                    from_account_id(a)) :
                LET r == block_user(a, p, attached)
                IN  r.error = NoError =>
                       r.users[from_account_id(a)].blocked_users
                          = users[from_account_id(a)].blocked_users

\* a record with two trusted peers and a blocked peer, whose owner blocks
\* that peer again
C13_Witness ==
    \E a \in UserAccounts :
       /\ from_account_id(a) \in DOMAIN users
       /\ Len(users[from_account_id(a)].trust_network) = 2
       /\ Len(users[from_account_id(a)].blocked_users) = 1
       /\ block_user(a, users[from_account_id(a)].blocked_users[1], 0).error
             = NoError

(***************************************************************************)
(* C14: every trust level stored in any record is above 0 and at most 1    *)
(* (LevelOne); 0 is never stored: a trust(p, 0) that succeeds leaves the   *)
(* caller's record without an entry for p.                                 *)
(***************************************************************************)
C14_LevelsInRange ==
    /\ \A id \in DOMAIN users :
          \A i \in 1..Len(users[id].trust_network) :
             /\ users[id].trust_network[i][2] > 0
             /\ users[id].trust_network[i][2] <= LevelOne
    /\ \A a \in UserAccounts, p \in PeerIds :
          \A attached \in Offers(trust_edit(from_account_id(a), p, 0),
                                 from_account_id(a)) :
             LET r == trust(a, p, 0, attached)
             IN  r.error = NoError => ~Trusts(r.users, from_account_id(a), p)

\* a record holding a level below 1 and the level 1, whose owner sets one
\* of the two to 0
C14_Witness ==
    \E a \in UserAccounts :
       /\ from_account_id(a) \in DOMAIN users
       /\ Len(users[from_account_id(a)].trust_network) = 2
       /\ users[from_account_id(a)].trust_network[1][2] < LevelOne
       /\ users[from_account_id(a)].trust_network[2][2] = LevelOne
       /\ LET p == users[from_account_id(a)].trust_network[1][1]
          IN  /\ trust(a, p, 0, 0).error = NoError
              /\ Len(trust(a, p, 0, 0).users[from_account_id(a)].trust_network) = 1

\* the pairs of a trust network whose key is not the given one, in their order
WithoutKey(vec, key) == SelectSeq(vec, LAMBDA pair : pair[1] # key)

(***************************************************************************)
(* C15: a block_user(B) by A that succeeds changes, outside A's own record *)
(* and ledger entry, at most the one trust entry toward A in the record B  *)
(* already has: B's balance, profile and block set and its other trust     *)
(* entries stay, every third user's record and balance stay, no record or  *)
(* ledger entry appears or disappears (none is made for a B without one),  *)
(* and every transfer scheduled goes to the caller.                        *)
(***************************************************************************)
C15_BlockFrame ==
    \A a \in Accounts, b_id \in AllPeerIds :
       LET a_id == from_account_id(a)
       IN  \A attached \in {0, Needed(block_user_edit(a_id, b_id), a_id)} :
              LET r == block_user(a, b_id, attached)
              IN  r.error = NoError =>
                     /\ DOMAIN r.users \ {a_id} = DOMAIN users \ {a_id}
                     /\ DOMAIN r.user_deposits \ {a_id} = DOMAIN user_deposits \ {a_id}
                     /\ \A id \in DOMAIN users \ {a_id} :
                           /\ r.user_deposits[id] = user_deposits[id]
                           /\ id # b_id => r.users[id] = users[id]
                           /\ id = b_id =>
                                 /\ r.users[id] =
                                       [users[id] EXCEPT !.trust_network =
                                           WithoutKey(@, a_id)]
                                 /\ Len(r.users[id].trust_network)
                                       >= Len(users[id].trust_network) - 1
                     /\ \A i \in 1..Len(r.promises) : r.promises[i].receiver_id = a

\* bob has a profile, blocks the contract's account and trusts it and alice;
\* the contract's account trusts alice too; alice blocks bob, and of the two
\* entries toward alice only bob's goes
C15_Witness ==
    LET a_id == from_account_id("alice.near")
        b_id == from_account_id("bob.near")
        c_id == from_account_id(ContractAccount)
        r == block_user("alice.near", b_id,
                        Needed(block_user_edit(a_id, b_id), a_id))
    IN  /\ {a_id, b_id, c_id} \subseteq DOMAIN users
        /\ users[b_id].public_profile # ""
        /\ Blocks(users, b_id, c_id)
        /\ Trusts(users, b_id, a_id)
        /\ Trusts(users, b_id, c_id)
        /\ Trusts(users, c_id, a_id)
        /\ r.error = NoError
        /\ ~Trusts(r.users, b_id, a_id)
        /\ Trusts(r.users, b_id, c_id)
        /\ Trusts(r.users, c_id, a_id)

(***************************************************************************)
(* C16: users and user_deposits have the same keys in every state between  *)
(* calls.  A caller without a record gets its record and its ledger entry  *)
(* together from its first successful call of a mutating method (a failed  *)
(* call leaves it with neither), and a successful delete_user removes the  *)
(* caller's key from both maps.                                            *)
(***************************************************************************)
C16_SameKeys ==
    /\ DOMAIN users = DOMAIN user_deposits
    /\ \A c \in MutatingCalls :
          from_account_id(c.predecessor) \notin DOMAIN users =>
             \A attached \in Attached(c) :
                LET r == Outcome(c, attached)
                    caller_id == from_account_id(c.predecessor)
                IN  /\ DOMAIN r.users = DOMAIN r.user_deposits
                    /\ r.error = NoError => caller_id \in DOMAIN r.users
                    /\ r.error # NoError => caller_id \notin DOMAIN r.users
    /\ \A a \in UserAccounts, attached \in 0..MaxExtract :
          LET r == delete_user(a, attached)
          IN  /\ DOMAIN r.users = DOMAIN r.user_deposits
              /\ r.error = NoError => from_account_id(a) \notin DOMAIN r.users

\* alice has a record and an entry, bob has neither: bob's first call makes
\* both, when it is funded, and alice's delete_user removes both
C16_Witness ==
    LET a_id == from_account_id("alice.near")
        b_id == from_account_id("bob.near")
        first == modify_public_profile("bob.near", "",
                     Needed(modify_public_profile_edit(b_id, ""), b_id))
    IN  /\ a_id \in DOMAIN users
        /\ a_id \in DOMAIN user_deposits
        /\ b_id \notin DOMAIN users \cup DOMAIN user_deposits
        /\ first.error = NoError
        /\ b_id \in DOMAIN first.users \cap DOMAIN first.user_deposits
        /\ modify_public_profile("bob.near", "", 0).error # NoError
        /\ delete_user("alice.near", 0).error = NoError
        /\ a_id \notin DOMAIN delete_user("alice.near", 0).users
                          \cup DOMAIN delete_user("alice.near", 0).user_deposits

\* what the promises of a call pay to the given account
PaidTo(promises, account_id) ==
    SumPromises(SelectSeq(promises, LAMBDA p : p.receiver_id = account_id), 1)

(***************************************************************************)
(* C17: every successful call of a payable method (modify_public_profile,  *)
(* trust, untrust, block_user, unblock_user, delete_user) conserves the    *)
(* caller's funds: the caller's ledger balance before the call plus what   *)
(* is attached equals the balance after the call (none after delete_user)  *)
(* plus what the call transfers back to the caller; nothing attached stays *)
(* with the contract.                                                      *)
(***************************************************************************)
C17_CallerFundsConserved ==
    /\ \A c \in MutatingCalls :
          \A attached \in Attached(c) :
             LET r == Outcome(c, attached)
                 caller_id == from_account_id(c.predecessor)
             IN  r.error = NoError =>
                    Balance(user_deposits, caller_id) + attached
                       = Balance(r.user_deposits, caller_id)
                            + PaidTo(r.promises, c.predecessor)
    /\ \A a \in UserAccounts, attached \in 0..MaxExtract :
          LET r == delete_user(a, attached)
          IN  r.error = NoError =>
                 Balance(user_deposits, from_account_id(a)) + attached
                    = PaidTo(r.promises, a)

(***************************************************************************)
(* C18: solvency.  From an empty ledger and an account balance that is not *)
(* negative, the contract's balance (plus the deposit of every successful  *)
(* call, minus every transfer scheduled) is at least                       *)
(* get_total_users_deposit() in every reachable state: no sequence of user *)
(* calls and extract_profit calls by the contract's own account pays out   *)
(* funds that back deposits.                                               *)
(***************************************************************************)
C18_Solvent == account_balance >= get_total_users_deposit

\* the calls that take something out of the caller's record: untrust,
\* unblock_user and trust at level 0
ShrinkingCalls ==
    {c \in MutatingCalls :
        \/ c.method \in {"untrust", "unblock_user"}
        \/ c.method = "trust" /\ c.level = 0}

(***************************************************************************)
(* C19: at a constant cost per byte, in every reachable state and for      *)
(* every caller that has a record, untrust(p), unblock_user(p) and         *)
(* trust(p, 0) toward a peer that does not block the caller succeed with   *)
(* nothing attached, and the caller's ledger balance does not go up.       *)
(***************************************************************************)
C19_ShrinkingIsFree ==
    \A c \in ShrinkingCalls :
       LET caller_id == from_account_id(c.predecessor)
           r == Outcome(c, 0)
       IN  (caller_id \in DOMAIN users /\ ~TurnedAway(c)) =>
              /\ r.error = NoError
              /\ Balance(r.user_deposits, caller_id)
                    <= Balance(user_deposits, caller_id)

\* alice trusts bob and blocks bob: untrust(bob) and trust(bob, 0) with
\* nothing attached remove the entry and lower her balance, unblock_user(bob)
\* removes the block and lowers it
C19_Witness ==
    LET a_id == from_account_id("alice.near")
        b_id == from_account_id("bob.near")
    IN  /\ Trusts(users, a_id, b_id)
        /\ Blocks(users, a_id, b_id)
        /\ ~Blocks(users, b_id, a_id)
        /\ untrust("alice.near", b_id, 0).error = NoError
        /\ trust("alice.near", b_id, 0, 0).error = NoError
        /\ unblock_user("alice.near", b_id, 0).error = NoError
        /\ ~Trusts(untrust("alice.near", b_id, 0).users, a_id, b_id)
        /\ ~Blocks(unblock_user("alice.near", b_id, 0).users, a_id, b_id)
        /\ untrust("alice.near", b_id, 0).user_deposits[a_id] < user_deposits[a_id]
        /\ unblock_user("alice.near", b_id, 0).user_deposits[a_id]
              < user_deposits[a_id]

====
